---- MODULE Spec2Model ----
(***************************************************************************)
(* gocrawler: a depth-bounded concurrent web crawler (src/gocrawler.go).   *)
(*                                                                         *)
(* One goroutine per discovered URL (crawlHistory.Crawl), a visited map    *)
(* handed around through the one-slot channel mapAccess, completion        *)
(* signals on the unbuffered per-call channel doneHere, and the fetcher    *)
(* with its unsynchronised counter countCrawled and result map f.          *)
(*                                                                         *)
(* URLs are sequences of characters, so that strings.Index and             *)
(* strings.HasSuffix are computed on the text of the URL.                  *)
(***************************************************************************)
EXTENDS Integers, Sequences, FiniteSets, TLC

\* ------------------------------------------------------------------ bounds
MaxDepth == 3       \* --depth ranges over -1 .. MaxDepth
MaxCap == 3         \* --max_urls ranges over 0 .. MaxCap, and 10
MaxTasks == 5       \* goroutines created by one invocation (never binding)

\* ------------------------------------------------------------------- URLs
A == <<"h","t","t","p","A">>
B == <<"h","t","t","p","B">>
C == <<"h","t","t","p","C">>
D == <<"h","t","t","p","D">>
E == <<"h","t","t","p","E">>
P == <<"h","t","t","p","P",".","p","d","f">>   \* an http link to a file
R == <<"/","r">>                                \* a relative link

URLs == {A, B, C, D, E, P}

\* the pages of the web, as the sequence of <a href> values of each page
NoLinks == [u \in URLs |-> <<>>]
TreeWeb == [NoLinks EXCEPT ![A] = <<B, C>>, ![B] = <<D>>]
CycleWeb == [NoLinks EXCEPT ![A] = <<B>>, ![B] = <<A>>]
MixedWeb == [NoLinks EXCEPT ![A] = <<B, P, R, B, C>>, ![B] = <<C, A>>,
                            ![C] = <<B, D>>, ![P] = <<A, P>>]
FanWeb == [NoLinks EXCEPT ![A] = <<B, C, D>>, ![B] = <<A>>, ![C] = <<A>>,
                          ![D] = <<B>>]
\* D is two hops from A through B and three hops through C and E
DiamondWeb == [NoLinks EXCEPT ![A] = <<B, C>>, ![B] = <<D>>, ![C] = <<E>>,
                              ![E] = <<D>>]
Webs == {TreeWeb, CycleWeb, MixedWeb, FanWeb, DiamondWeb}

\* ---------------------------------------------------------------- strings
\* strings.HasSuffix(s, suffix)
HasSuffix(s, suffix) ==
    /\ Len(s) >= Len(suffix)
    /\ SubSeq(s, Len(s) - Len(suffix) + 1, Len(s)) = suffix

\* strings.Index(s, substr): the index of the first instance, or -1
Index(s, substr) ==
    LET at == {i \in 0..(Len(s) - Len(substr)) :
                  SubSeq(s, i + 1, i + Len(substr)) = substr}
    IN  IF at = {} THEN -1 ELSE CHOOSE i \in at : \A j \in at : i <= j

files == << <<".","p","d","f">>, <<".","z","i","p">>, <<".","j","p","e","g">>,
            <<".","j","p","g">>, <<".","g","i","f">>, <<".","p","n","g">>,
            <<".","d","o","c">>, <<".","d","o","c","x">>, <<".","r","a","r">>,
            <<".","g","z","i","p">>, <<".","t","a","r">>, <<".","m","p","3">>,
            <<".","w","a","v">>, <<".","m","p","g">>, <<".","m","p","e","g">>,
            <<".","s","w","f">>, <<".","e","x","e">>, <<".","b","i","n">> >>

\* no suffix is filtered
isFileNever(url) == FALSE

isFile(url) == \E k \in 1..Len(files) : HasSuffix(url, files[k])

isHTTP(u) == Index(u, <<"h","t","t","p">>) = 0

\* ------------------------------------------------------------------ state
VARIABLES
    startURL, depth, maxURLS,   \* the flags --url, --depth, --max_urls
    web, down,                  \* the pages, and the URLs http.Get fails on
    task,                       \* the calls of crawlHistory.Crawl, by creation
    visited,                    \* the contents of the history map
    mapAccess,                  \* the buffer of c.mapAccess (capacity 1)
    done,                       \* the buffer of the top-level done (capacity 1)
    pcMain,                     \* the top-level Crawl: "crawl" or "returned"
    countCrawled,               \* the global counter
    f,                          \* the fetcher map: url -> stored links
    writers,                    \* the calls that are inside a write of f
    crashed,                    \* the runtime's fatal "concurrent map writes"
    fetchCalls,                 \* history: Fetch calls per URL
    peakFetching                \* history: most calls inside Fetch at once

env == <<startURL, depth, maxURLS, web, down>>
vars == <<startURL, depth, maxURLS, web, down, task, visited, mapAccess, done,
          pcMain, countCrawled, f, writers, crashed, fetchCalls, peakFetching>>

\* an entry of the fetcher map; has = FALSE: the key is absent
NoResult == [has |-> FALSE, urls |-> <<>>]

Tasks == 1..Len(task)
Children(t) == {c \in Tasks : task[c].parent = t}
InFetch(t) == task[t].pc \in {"scan", "inc", "incw", "full", "store"}
Fetching == {t \in Tasks : InFetch(t)}
Holders == {t \in Tasks : task[t].m}
Max(a, b) == IF a >= b THEN a ELSE b

\* a call of c.Crawl(url, depth, done); parent = 0 is the top-level done
NewTask(u, d, p) ==
    [url |-> u, depth |-> d, parent |-> p, pc |-> "start",
     urls |-> <<>>, i |-> 1, count |-> 0, m |-> FALSE,
     tok |-> 1, furls |-> <<>>, tmp |-> 0, err |-> FALSE,
     acquired |-> 0, marked |-> {}, sent |-> 0, fetched |-> 0]

\* the map put into mapAccess is empty: the start url is not marked
InitUnseeded ==
    /\ startURL \in {A, P}
    /\ depth \in -1..MaxDepth
    /\ maxURLS \in (0..MaxCap) \cup {10}
    /\ web \in Webs
    /\ down \in {{}, {A}, {B}}
    /\ task = <<NewTask(startURL, depth, 0)>>
    /\ visited = {}
    /\ mapAccess = <<"m">>
    /\ done = 0
    /\ pcMain = "crawl"
    /\ countCrawled = 0
    /\ f = [u \in URLs |-> NoResult]
    /\ writers = {}
    /\ crashed = FALSE
    /\ fetchCalls = [u \in URLs |-> 0]
    /\ peakFetching = 0

\* the state when Crawl reaches c.Crawl(url, depth, done), line 65
Init ==
    /\ startURL \in {A, P}
    /\ depth \in -1..MaxDepth
    /\ maxURLS \in (0..MaxCap) \cup {10}
    /\ web \in Webs
    /\ down \in {{}, {A}, {B}}
    /\ task = <<NewTask(startURL, depth, 0)>>
    /\ visited = {startURL}
    /\ mapAccess = <<"m">>
    /\ done = 0
    /\ pcMain = "crawl"
    /\ countCrawled = 0
    /\ f = [u \in URLs |-> NoResult]
    /\ writers = {}
    /\ crashed = FALSE
    /\ fetchCalls = [u \in URLs |-> 0]
    /\ peakFetching = 0

\* ------------------------------------------------ crawlHistory.Crawl, entry
\* lines 74-77: depth <= 0, no fetch; the call goes to send on done
CrawlLeaf(t) ==
    /\ ~crashed
    /\ task[t].pc = "start"
    /\ task[t].depth <= 0
    /\ task' = [task EXCEPT ![t].pc = "done"]
    /\ UNCHANGED <<env, visited, mapAccess, done, pcMain, countCrawled, f,
                   writers, crashed, fetchCalls, peakFetching>>

\* ------------------------------------------------------------ fetcher.Fetch
\* the depth test lets depth = 0 through to Fetch
FetchGetAtZero(t) ==
    /\ ~crashed
    /\ task[t].pc = "start"
    /\ task[t].depth >= 0
    /\ fetchCalls' = [fetchCalls EXCEPT ![task[t].url] = @ + 1]
    /\ IF task[t].url \in down
         THEN task' = [task EXCEPT ![t].fetched = @ + 1, ![t].err = TRUE,
                                   ![t].pc = "done"]
         ELSE task' = [task EXCEPT ![t].fetched = @ + 1, ![t].pc = "scan",
                                   ![t].tok = 1, ![t].furls = <<>>]
    /\ peakFetching' =
          Max(peakFetching,
              Cardinality({x \in Tasks : task'[x].pc \in
                              {"scan", "inc", "incw", "full", "store"}}))
    /\ UNCHANGED <<env, visited, mapAccess, done, pcMain, countCrawled, f,
                   writers, crashed>>

\* lines 79, 157-166: the call of Fetch and its http.Get
FetchGet(t) ==
    /\ ~crashed
    /\ task[t].pc = "start"
    /\ task[t].depth > 0
    /\ fetchCalls' = [fetchCalls EXCEPT ![task[t].url] = @ + 1]
    /\ IF task[t].url \in down
         THEN task' = [task EXCEPT ![t].fetched = @ + 1, ![t].err = TRUE,
                                   ![t].pc = "done"]
         ELSE task' = [task EXCEPT ![t].fetched = @ + 1, ![t].pc = "scan",
                                   ![t].tok = 1, ![t].furls = <<>>]
    /\ peakFetching' =
          Max(peakFetching,
              Cardinality({x \in Tasks : task'[x].pc \in
                              {"scan", "inc", "incw", "full", "store"}}))
    /\ UNCHANGED <<env, visited, mapAccess, done, pcMain, countCrawled, f,
                   writers, crashed>>

\* the cap is never tested
CapNever == FALSE

\* line 194: the cap test, a read of the shared counter
CapExceeded == countCrawled > maxURLS

\* isFile is tested before the cap: a link to a file is skipped even when
\* the counter is over the cap
FetchScanFileFirst(t) ==
    /\ ~crashed
    /\ task[t].pc = "scan"
    /\ task[t].tok <= Len(web[task[t].url])
    /\ LET u == web[task[t].url][task[t].tok]
       IN  IF ~isHTTP(u)
             THEN task' = [task EXCEPT ![t].tok = @ + 1]
             ELSE IF isFile(u)
               THEN task' = [task EXCEPT ![t].tok = @ + 1]
               ELSE IF CapExceeded
                 THEN task' = [task EXCEPT ![t].pc = "full"]
                 ELSE task' = [task EXCEPT ![t].furls = Append(@, u),
                                           ![t].pc = "inc"]
    /\ UNCHANGED <<env, visited, mapAccess, done, pcMain, countCrawled, f,
                   writers, crashed, fetchCalls, peakFetching>>

\* lines 176-204: one <a href> of the page
FetchScan(t) ==
    /\ ~crashed
    /\ task[t].pc = "scan"
    /\ task[t].tok <= Len(web[task[t].url])
    /\ LET u == web[task[t].url][task[t].tok]
       IN  IF ~isHTTP(u)
             THEN task' = [task EXCEPT ![t].tok = @ + 1]
             ELSE IF CapExceeded
               THEN task' = [task EXCEPT ![t].pc = "full"]
               ELSE IF isFile(u)
                 THEN task' = [task EXCEPT ![t].tok = @ + 1]
                 ELSE task' = [task EXCEPT ![t].furls = Append(@, u),
                                           ![t].pc = "inc"]
    /\ UNCHANGED <<env, visited, mapAccess, done, pcMain, countCrawled, f,
                   writers, crashed, fetchCalls, peakFetching>>

\* line 202, countCrawled++ : the read
FetchIncRead(t) ==
    /\ ~crashed
    /\ task[t].pc = "inc"
    /\ task' = [task EXCEPT ![t].tmp = countCrawled, ![t].pc = "incw"]
    /\ UNCHANGED <<env, visited, mapAccess, done, pcMain, countCrawled, f,
                   writers, crashed, fetchCalls, peakFetching>>

\* countCrawled++ is missing: the link is appended, the counter stays
FetchIncWriteNone(t) ==
    /\ ~crashed
    /\ task[t].pc = "incw"
    /\ task' = [task EXCEPT ![t].tok = @ + 1, ![t].pc = "scan"]
    /\ UNCHANGED <<env, visited, mapAccess, done, pcMain, countCrawled, f,
                   writers, crashed, fetchCalls, peakFetching>>

\* line 202, countCrawled++ : the write
FetchIncWrite(t) ==
    /\ ~crashed
    /\ task[t].pc = "incw"
    /\ countCrawled' = task[t].tmp + 1
    /\ task' = [task EXCEPT ![t].tok = @ + 1, ![t].pc = "scan"]
    /\ UNCHANGED <<env, visited, mapAccess, done, pcMain, f, writers, crashed,
                   fetchCalls, peakFetching>>

\* lines 195 and 214, f[url] = &result{title, urls}: the write begins.  The
\* map is written without synchronisation: when another write is under way
\* the runtime may stop the process with "concurrent map writes".
FetchStoreBegin(t) ==
    /\ ~crashed
    /\ \/ task[t].pc = "full"
       \/ task[t].pc = "scan" /\ task[t].tok > Len(web[task[t].url])
    /\ task' = [task EXCEPT ![t].err = (task[t].pc = "full"),
                            ![t].pc = "store"]
    /\ writers' = writers \cup {t}
    /\ crashed' \in (IF writers = {} THEN {FALSE} ELSE BOOLEAN)
    /\ UNCHANGED <<env, visited, mapAccess, done, pcMain, countCrawled, f,
                   fetchCalls, peakFetching>>

\* the error return of line 196 is missing: the links found so far are used
FetchStoreEndNoError(t) ==
    /\ ~crashed
    /\ task[t].pc = "store"
    /\ f' = [f EXCEPT ![task[t].url] = [has |-> TRUE, urls |-> task[t].furls]]
    /\ writers' = writers \ {t}
    /\ task' = [task EXCEPT ![t].urls = task[t].furls, ![t].pc = "acquire"]
    /\ UNCHANGED <<env, visited, mapAccess, done, pcMain, countCrawled,
                   crashed, fetchCalls, peakFetching>>

\* lines 195-196 and 214-216: the write ends and Fetch returns
FetchStoreEnd(t) ==
    /\ ~crashed
    /\ task[t].pc = "store"
    /\ f' = [f EXCEPT ![task[t].url] = [has |-> TRUE, urls |-> task[t].furls]]
    /\ writers' = writers \ {t}
    /\ IF task[t].err
         THEN task' = [task EXCEPT ![t].pc = "done"]
         ELSE task' = [task EXCEPT ![t].urls = task[t].furls,
                                   ![t].pc = "acquire"]
    /\ UNCHANGED <<env, visited, mapAccess, done, pcMain, countCrawled,
                   crashed, fetchCalls, peakFetching>>

\* ------------------------------------------- crawlHistory.Crawl, dispatching
\* the map is read from the channel but left in its buffer
AcquirePeek(t) ==
    /\ ~crashed
    /\ task[t].pc = "acquire"
    /\ mapAccess # <<>>
    /\ task' = [task EXCEPT ![t].m = TRUE, ![t].acquired = @ + 1,
                            ![t].i = 1, ![t].pc = "range"]
    /\ UNCHANGED <<env, visited, mapAccess, done, pcMain, countCrawled, f,
                   writers, crashed, fetchCalls, peakFetching>>

\* line 93: m := <-c.mapAccess
Acquire(t) ==
    /\ ~crashed
    /\ task[t].pc = "acquire"
    /\ mapAccess # <<>>
    /\ mapAccess' = Tail(mapAccess)
    /\ task' = [task EXCEPT ![t].m = TRUE, ![t].acquired = @ + 1,
                            ![t].i = 1, ![t].pc = "range"]
    /\ UNCHANGED <<env, visited, done, pcMain, countCrawled, f, writers,
                   crashed, fetchCalls, peakFetching>>

\* the membership test is dropped
UnseenAlways(u) == TRUE

\* line 97: !m[u]
Unseen(u) == u \notin visited

\* the child is given the depth of its parent
SpawnSameDepth(t) ==
    /\ ~crashed
    /\ task[t].pc = "range"
    /\ task[t].i <= Len(task[t].urls)
    /\ Len(task) < MaxTasks
    /\ LET u == task[t].urls[task[t].i]
       IN  /\ Unseen(u)
           /\ visited' = visited \cup {u}
           /\ task' = Append([task EXCEPT ![t].count = @ + 1,
                                          ![t].marked = @ \cup {u},
                                          ![t].i = @ + 1],
                             NewTask(u, task[t].depth, t))
    /\ UNCHANGED <<env, mapAccess, done, pcMain, countCrawled, f, writers,
                   crashed, fetchCalls, peakFetching>>

\* the goroutine is started but count++ is missing
SpawnNoCount(t) ==
    /\ ~crashed
    /\ task[t].pc = "range"
    /\ task[t].i <= Len(task[t].urls)
    /\ Len(task) < MaxTasks
    /\ LET u == task[t].urls[task[t].i]
       IN  /\ Unseen(u)
           /\ visited' = visited \cup {u}
           /\ task' = Append([task EXCEPT ![t].marked = @ \cup {u},
                                          ![t].i = @ + 1],
                             NewTask(u, task[t].depth - 1, t))
    /\ UNCHANGED <<env, mapAccess, done, pcMain, countCrawled, f, writers,
                   crashed, fetchCalls, peakFetching>>

\* the goroutine is started but m[u] = true is missing
SpawnNoMark(t) ==
    /\ ~crashed
    /\ task[t].pc = "range"
    /\ task[t].i <= Len(task[t].urls)
    /\ Len(task) < MaxTasks
    /\ LET u == task[t].urls[task[t].i]
       IN  /\ Unseen(u)
           /\ task' = Append([task EXCEPT ![t].count = @ + 1,
                                          ![t].i = @ + 1],
                             NewTask(u, task[t].depth - 1, t))
    /\ UNCHANGED <<env, visited, mapAccess, done, pcMain, countCrawled, f,
                   writers, crashed, fetchCalls, peakFetching>>

\* the map is replaced by a new one that holds only u
SpawnFreshMap(t) ==
    /\ ~crashed
    /\ task[t].pc = "range"
    /\ task[t].i <= Len(task[t].urls)
    /\ Len(task) < MaxTasks
    /\ LET u == task[t].urls[task[t].i]
       IN  /\ Unseen(u)
           /\ visited' = {u}
           /\ task' = Append([task EXCEPT ![t].count = @ + 1,
                                          ![t].marked = @ \cup {u},
                                          ![t].i = @ + 1],
                             NewTask(u, task[t].depth - 1, t))
    /\ UNCHANGED <<env, mapAccess, done, pcMain, countCrawled, f, writers,
                   crashed, fetchCalls, peakFetching>>

\* lines 96-101: a url not in the map is marked and given a goroutine
Spawn(t) ==
    /\ ~crashed
    /\ task[t].pc = "range"
    /\ task[t].i <= Len(task[t].urls)
    /\ Len(task) < MaxTasks
    /\ LET u == task[t].urls[task[t].i]
       IN  /\ Unseen(u)
           /\ visited' = visited \cup {u}
           /\ task' = Append([task EXCEPT ![t].count = @ + 1,
                                          ![t].marked = @ \cup {u},
                                          ![t].i = @ + 1],
                             NewTask(u, task[t].depth - 1, t))
    /\ UNCHANGED <<env, mapAccess, done, pcMain, countCrawled, f, writers,
                   crashed, fetchCalls, peakFetching>>

\* lines 96-97: a url already in the map is passed over
SkipSeen(t) ==
    /\ ~crashed
    /\ task[t].pc = "range"
    /\ task[t].i <= Len(task[t].urls)
    /\ ~Unseen(task[t].urls[task[t].i])
    /\ task' = [task EXCEPT ![t].i = @ + 1]
    /\ UNCHANGED <<env, visited, mapAccess, done, pcMain, countCrawled, f,
                   writers, crashed, fetchCalls, peakFetching>>

\* the map is not put back
ReleaseLeak(t) ==
    /\ ~crashed
    /\ task[t].pc = "range"
    /\ task[t].i > Len(task[t].urls)
    /\ task' = [task EXCEPT ![t].m = FALSE, ![t].pc = "wait"]
    /\ UNCHANGED <<env, visited, mapAccess, done, pcMain, countCrawled, f,
                   writers, crashed, fetchCalls, peakFetching>>

\* line 105: c.mapAccess <- m
Release(t) ==
    /\ ~crashed
    /\ task[t].pc = "range"
    /\ task[t].i > Len(task[t].urls)
    /\ Len(mapAccess) < 1
    /\ mapAccess' = Append(mapAccess, "m")
    /\ task' = [task EXCEPT ![t].m = FALSE, ![t].pc = "wait"]
    /\ UNCHANGED <<env, visited, done, pcMain, countCrawled, f, writers,
                   crashed, fetchCalls, peakFetching>>

\* ------------------------------------------------ crawlHistory.Crawl, fan-in
\* the loop is left while children are still counted
WaitExitEarly(t) ==
    /\ ~crashed
    /\ task[t].pc = "wait"
    /\ task' = [task EXCEPT ![t].pc = "done"]
    /\ UNCHANGED <<env, visited, mapAccess, done, pcMain, countCrawled, f,
                   writers, crashed, fetchCalls, peakFetching>>

\* line 108: the loop ends when count reaches 0
WaitExit(t) ==
    /\ ~crashed
    /\ task[t].pc = "wait"
    /\ task[t].count = 0
    /\ task' = [task EXCEPT ![t].pc = "done"]
    /\ UNCHANGED <<env, visited, mapAccess, done, pcMain, countCrawled, f,
                   writers, crashed, fetchCalls, peakFetching>>

\* lines 75, 84, 112 with lines 108-110 of the parent: doneHere is
\* unbuffered, the child's send and the parent's receive are one step
SignalParent(t) ==
    /\ ~crashed
    /\ task[t].pc = "done"
    /\ task[t].parent # 0
    /\ LET p == task[t].parent
       IN  /\ task[p].pc = "wait"
           /\ task[p].count > 0
           /\ task' = [task EXCEPT ![p].count = @ - 1,
                                   ![t].sent = @ + 1,
                                   ![t].pc = "returned"]
    /\ UNCHANGED <<env, visited, mapAccess, done, pcMain, countCrawled, f,
                   writers, crashed, fetchCalls, peakFetching>>

\* lines 75, 84, 112 of the root call: done has a buffer of one
SignalTop(t) ==
    /\ ~crashed
    /\ task[t].pc = "done"
    /\ task[t].parent = 0
    /\ done < 1
    /\ done' = done + 1
    /\ task' = [task EXCEPT ![t].sent = @ + 1, ![t].pc = "returned"]
    /\ UNCHANGED <<env, visited, mapAccess, pcMain, countCrawled, f, writers,
                   crashed, fetchCalls, peakFetching>>

\* ------------------------------------------------------------ Crawl, line 68
\* c.Crawl ran in the caller's goroutine; after it returns, <-done
MainReceive ==
    /\ ~crashed
    /\ pcMain = "crawl"
    /\ task[1].pc = "returned"
    /\ done > 0
    /\ done' = done - 1
    /\ pcMain' = "returned"
    /\ UNCHANGED <<env, task, visited, mapAccess, countCrawled, f, writers,
                   crashed, fetchCalls, peakFetching>>

\* ------------------------------------------------------------ specification
TaskStep(t) ==
    \/ CrawlLeaf(t)
    \/ FetchGet(t)
    \/ FetchScan(t)
    \/ FetchIncRead(t)
    \/ FetchIncWrite(t)
    \/ FetchStoreBegin(t)
    \/ FetchStoreEnd(t)
    \/ Acquire(t)
    \/ Spawn(t)
    \/ SkipSeen(t)
    \/ Release(t)
    \/ WaitExit(t)
    \/ SignalParent(t)
    \/ SignalTop(t)

Next ==
    \/ \E t \in Tasks : CrawlLeaf(t)
    \/ \E t \in Tasks : FetchGet(t)
    \/ \E t \in Tasks : FetchScan(t)
    \/ \E t \in Tasks : FetchIncRead(t)
    \/ \E t \in Tasks : FetchIncWrite(t)
    \/ \E t \in Tasks : FetchStoreBegin(t)
    \/ \E t \in Tasks : FetchStoreEnd(t)
    \/ \E t \in Tasks : Acquire(t)
    \/ \E t \in Tasks : Spawn(t)
    \/ \E t \in Tasks : SkipSeen(t)
    \/ \E t \in Tasks : Release(t)
    \/ \E t \in Tasks : WaitExit(t)
    \/ \E t \in Tasks : SignalParent(t)
    \/ \E t \in Tasks : SignalTop(t)
    \/ MainReceive

Spec == Init /\ [][Next]_vars

\* every goroutine that can run is eventually run
FairSpec ==
    /\ Spec
    /\ \A t \in 1..MaxTasks : WF_vars(t \in Tasks /\ TaskStep(t))
    /\ WF_vars(MainReceive)

TypeOK ==
    /\ Len(task) <= MaxTasks
    /\ visited \subseteq URLs
    /\ Len(mapAccess) <= 1
    /\ done \in 0..1

\* ================================================================== claims

\* C1: when the top-level Crawl has received the root's completion signal,
\* every call of c.Crawl created during the invocation has sent its own.
C1_Barrier ==
    pcMain = "returned" =>
        \A t \in Tasks : task[t].sent = 1 /\ task[t].pc = "returned"

C1_Witness ==
    /\ pcMain = "returned"
    /\ Len(task) >= 4
    /\ \E t \in Tasks : task[t].parent > 1

\* C2: Fetch is called at most once per URL in one invocation.
C2_FetchOnce == \A u \in URLs : fetchCalls[u] <= 1

\* a page that links B twice, pages that link back to A and to each other
C2_Witness ==
    /\ web = MixedWeb
    /\ startURL = A
    /\ pcMain = "returned"
    /\ fetchCalls[A] = 1 /\ fetchCalls[B] = 1 /\ fetchCalls[C] = 1

\* C3: unless the process is stopped inside Fetch, no reachable state is a
\* deadlock, and under fair scheduling every call sends its completion
\* signal and the top-level Crawl returns.
AllDone ==
    /\ pcMain = "returned"
    /\ \A t \in Tasks : task[t].pc = "returned" /\ task[t].sent = 1

NotStuck == crashed \/ pcMain = "returned" \/ ENABLED Next

C3_Terminates == []NotStuck /\ <>(crashed \/ AllDone)

C3_Witness ==
    /\ web = CycleWeb
    /\ depth = MaxDepth
    /\ AllDone
    /\ fetchCalls[A] = 1 /\ fetchCalls[B] = 1

\* C4: the map is in exactly one place: held by one call, or buffered in
\* mapAccess; only the holder is inside the loop that tests and marks.
C4_OneHolder ==
    /\ Cardinality(Holders) + Len(mapAccess) = 1
    /\ \A t \in Tasks : task[t].pc = "range" <=> task[t].m

\* one call is inside its loop while another waits for the map
C4_Witness ==
    \E t, s \in Tasks :
        /\ task[t].m
        /\ task[t].marked # {}
        /\ task[s].pc = "acquire"

\* ---- hop distance in the web
Range(q) == {q[k] : k \in 1..Len(q)}
Links(u) == Range(web[u]) \cap URLs

RECURSIVE WithinHops(_)
\* the URLs at most k hops from the start URL
WithinHops(k) ==
    IF k < 0 THEN {}
    ELSE IF k = 0 THEN {startURL}
    ELSE LET near == WithinHops(k - 1)
         IN  near \cup UNION {Links(u) : u \in near}

Fetched == {u \in URLs : fetchCalls[u] > 0}

HopBound(d) ==
    /\ visited \subseteq WithinHops(d)
    /\ \A t \in Tasks : task[t].url \in WithinHops(d)
    /\ Fetched \subseteq WithinHops(depth - 1)

\* A->[B,C], B->[D], depth 2, max_urls 10, every page answers
ScenarioRun ==
    /\ web = TreeWeb /\ startURL = A /\ depth = 2
    /\ maxURLS = 10 /\ down = {}

ScenarioResult == (ScenarioRun /\ pcMain = "returned") => Fetched = {A, B, C}

\* C5 as stated: for every depth d, nothing further than d hops is marked
\* seen or given a call, nothing at d hops or more is fetched, and the
\* scenario fetches exactly {A,B,C}.
C5_Original == HopBound(depth) /\ ScenarioResult

\* C5, amended: the same for every depth d >= 0; for d < 0 the start URL is
\* still marked seen and given the root call, and nothing is fetched.
C5_DepthBound == HopBound(Max(depth, 0)) /\ ScenarioResult

C5_Witness ==
    /\ ScenarioRun
    /\ pcMain = "returned"
    /\ D \in visited
    /\ \E t \in Tasks : task[t].url = D /\ task[t].depth = 0
    /\ fetchCalls[D] = 0

\* C6: a call started with depth <= 0 fetches nothing, never takes the map,
\* marks nothing, starts no call and sends one completion signal; an
\* invocation with depth <= 0 fetches nothing and returns.
LeafInv ==
    /\ \A t \in Tasks : task[t].depth <= 0 =>
          /\ task[t].pc \in {"start", "done", "returned"}
          /\ task[t].fetched = 0
          /\ task[t].acquired = 0 /\ ~task[t].m
          /\ task[t].marked = {}
          /\ Children(t) = {}
          /\ task[t].sent = (IF task[t].pc = "returned" THEN 1 ELSE 0)
    /\ depth <= 0 =>
          /\ Fetched = {} /\ visited = {startURL} /\ Len(task) = 1
          /\ ~crashed

LeavesDone ==
    /\ pcMain = "returned"
    /\ \A t \in Tasks : task[t].depth <= 0 => task[t].sent = 1

C6_LeafFrame == []LeafInv /\ <>(crashed \/ LeavesDone)

\* a leaf child has signalled while a sibling is still inside Fetch
C6_Witness ==
    \E t, s \in Tasks :
        /\ task[t].depth <= 0 /\ task[t].parent # 0
        /\ task[t].sent = 1
        /\ InFetch(s)

\* C7: a call whose Fetch returned an error starts no call, never takes the
\* map, marks nothing, and sends one completion signal; the invocation and
\* the other calls still run to their end.
ErrInv ==
    \A t \in Tasks : task[t].err =>
        /\ task[t].pc \in {"store", "done", "returned"}
        /\ Children(t) = {}
        /\ task[t].acquired = 0 /\ ~task[t].m
        /\ task[t].marked = {}
        /\ task[t].urls = <<>>
        /\ task[t].sent = (IF task[t].pc = "returned" THEN 1 ELSE 0)

C7_ErrorIsLeaf ==
    /\ []ErrInv
    /\ (\E t \in Tasks : task[t].err) ~> (crashed \/ AllDone)

\* a call refused by the cap has signalled; a sibling is still inside Fetch
C7_Witness ==
    \E t, s \in Tasks :
        /\ task[t].err /\ task[t].url \notin down
        /\ task[t].furls # <<>>
        /\ task[t].sent = 1
        /\ task[s].parent = task[t].parent
        /\ InFetch(s)

\* ---- file links
\* the URL ends in one of the suffixes of section 6 of the specification
Filtered(u) == \E k \in 1..Len(files) : HasSuffix(u, files[k])

Untouched(u) ==
    /\ u \notin visited
    /\ fetchCalls[u] = 0
    /\ \A t \in Tasks : /\ task[t].url # u
                        /\ u \notin Range(task[t].urls)
                        /\ u \notin Range(task[t].furls)
    /\ \A v \in URLs : u \notin Range(f[v].urls)

\* C8 as stated: no URL with a filtered suffix is ever marked seen, given a
\* call or fetched, in any invocation.
C8_Original == \A u \in URLs : Filtered(u) => Untouched(u)

\* C8, amended: no URL with a filtered suffix other than the start URL is
\* ever returned by Fetch, marked seen, given a call or fetched.
C8_FilesSkipped ==
    \A u \in URLs : (Filtered(u) /\ u # startURL) => Untouched(u)

\* the page of A links P before C; C was reached, P was not
C8_Witness ==
    /\ web = MixedWeb /\ startURL = A
    /\ pcMain = "returned"
    /\ P \in Range(web[A])
    /\ C \in visited /\ fetchCalls[C] = 1
    /\ P \notin visited

\* ---- the cap
NonFileHTTP(page) ==
    Cardinality({k \in 1..Len(page) : isHTTP(page[k]) /\ ~Filtered(page[k])})

\* C9: with max_urls = N and the counter at 0, Fetch accepts at most N links
\* from one page that has more than N non-file http links (the root call's
\* Fetch: the counter is 0 and no other call runs).
C9_PerPageCap ==
    NonFileHTTP(web[startURL]) > maxURLS => Len(task[1].furls) <= maxURLS

\* C10 as stated: in every state the counter is at most max_urls plus the
\* number of calls that are inside Fetch in that state.
C10_Original == countCrawled <= maxURLS + Cardinality(Fetching)

\* C10, amended: the counter is at most max_urls plus the largest number of
\* calls that have been inside Fetch at the same time so far.
C10_PeakOvershoot == countCrawled <= maxURLS + peakFetching

\* three calls passed the cap test together and all three incremented
C10_Witness ==
    /\ peakFetching = 3
    /\ countCrawled = maxURLS + 3

\* ---- the URLs a crawl of the given depth is to fetch
CrawlLinks(u) ==
    {web[u][k] : k \in {j \in 1..Len(web[u]) :
                          isHTTP(web[u][j]) /\ ~Filtered(web[u][j])}}

RECURSIVE CrawlWithin(_)
\* the URLs at most k hops from the start URL along http links to non-files
CrawlWithin(k) ==
    IF k < 0 THEN {}
    ELSE IF k = 0 THEN {startURL}
    ELSE LET near == CrawlWithin(k - 1)
         IN  near \cup UNION {CrawlLinks(u) : u \in near}

NoFetchError ==
    /\ down = {}
    /\ countCrawled <= maxURLS
    /\ \A t \in Tasks : ~task[t].err

\* C11: with no fetch failure and the cap never reached, every run of an
\* invocation ends with the same fetched set: the URLs fewer than depth
\* hops from the start URL.
C11_SameFetchedSet ==
    (pcMain = "returned" /\ NoFetchError) => Fetched = CrawlWithin(depth - 1)

\* ---- the tree of calls
RECURSIVE Ancestor(_, _)
\* a is the parent of c, or the parent of one of its ancestors
Ancestor(a, c) ==
    /\ task[c].parent # 0
    /\ \/ task[c].parent = a
       \/ Ancestor(a, task[c].parent)

\* C12: a call that has sent its completion signal has no child, and no
\* descendant, that has not sent its own; siblings finish in any order.
C12_ParentAfterChildren ==
    \A t, c \in Tasks :
        (task[t].sent > 0 /\ Ancestor(t, c)) => task[c].sent = 1

\* a call with a grandchild has signalled, and of two siblings the one
\* created later signalled first
C12_Witness ==
    /\ \E t, c, g \in Tasks :
          /\ task[c].parent = t /\ task[g].parent = c
          /\ task[t].sent = 1
    /\ \E c, d \in Tasks :
          /\ c < d /\ task[c].parent = task[d].parent
          /\ task[c].fetched = 1 /\ task[c].sent = 0 /\ task[d].sent = 1

\* C13: a call that waits for its children, or is at or past its send on
\* done, does not hold the map; when no call is inside its range loop the
\* map is in the buffer of mapAccess.
C13_MapPutBack ==
    /\ \A t \in Tasks :
          task[t].pc \in {"wait", "done", "returned"} => ~task[t].m
    /\ (\A t \in Tasks : task[t].pc # "range") => mapAccess = <<"m">>

\* two calls have taken the map and put it back; one still waits
C13_Witness ==
    /\ \E t, s \in Tasks :
          /\ t # s
          /\ task[t].acquired = 1 /\ task[t].pc = "wait"
          /\ task[s].acquired = 1 /\ task[s].pc = "returned"
    /\ \A t \in Tasks : task[t].pc # "range"
    /\ mapAccess = <<"m">>

\* C14: no two calls are inside a write of the same shared structure at the
\* same time (the visited map is written by its holder only; the result map
\* f is written by Fetch).
C14_NoConcurrentWrites ==
    /\ Cardinality(Holders) <= 1
    /\ Cardinality(writers) <= 1
    /\ ~crashed

\* ---- dispatching
\* the urls of its fetch result a call has gone through in its range loop
Dispatched(t) ==
    IF task[t].acquired = 0 THEN {}
    ELSE {task[t].urls[k] : k \in 1..(task[t].i - 1)}

\* C15: the children of a call are one per url it marked, each with the
\* call's depth less one; it marks under the guard and only urls of its fetch
\* result; every url it has gone through is marked and is the url of exactly
\* one call, so a url seen before or repeated on the page gets no second one.
C15_OneChildPerNewURL ==
    \A t \in Tasks :
        /\ \A c \in Children(t) :
              /\ task[c].depth = task[t].depth - 1
              /\ task[c].url \in task[t].marked
        /\ \A u \in task[t].marked :
              Cardinality({c \in Children(t) : task[c].url = u}) = 1
        /\ task[t].marked \subseteq Dispatched(t)
        /\ task[t].pc = "range" => task[t].m
        /\ \A u \in Dispatched(t) :
              /\ u \in visited
              /\ Cardinality({c \in Tasks : task[c].url = u}) = 1

\* a call went through a page of three links, one of them twice, and has two
\* children; another went through two links, one seen before, and has one
C15_Witness ==
    \E t, s \in Tasks :
        /\ task[t].pc = "wait" /\ Len(task[t].urls) = 3
        /\ Cardinality(Children(t)) = 2
        /\ task[s].pc = "wait" /\ Len(task[s].urls) = 2
        /\ Cardinality(Children(s)) = 1

\* ---- completion signals
Unsent(t) == {c \in Children(t) : task[c].sent = 0}

\* C16: a call sends at most once, and has sent exactly when it has returned;
\* the receives a call still owes are its children that have not sent, so
\* the signals it has received are those of its own children; a call past
\* its wait loop has no child that has not sent.
C16_OneSignalEach ==
    /\ \A t \in Tasks :
          /\ task[t].sent <= 1
          /\ (task[t].sent = 1) <=> (task[t].pc = "returned")
          /\ task[t].pc \in {"range", "wait", "done", "returned"} =>
                /\ task[t].count = Cardinality(Unsent(t))
                /\ Cardinality(task[t].marked) - task[t].count
                      = Cardinality(Children(t) \ Unsent(t))
          /\ task[t].pc \in {"done", "returned"} => Unsent(t) = {}
    /\ (task[1].sent = 1) <=> (done = 1 \/ pcMain = "returned")

\* the invocation is over; the root had two children, one of them a child
\* of its own
C16_Witness ==
    /\ pcMain = "returned"
    /\ Cardinality(Children(1)) >= 2
    /\ \E c \in Children(1) : Children(c) # {}
    /\ \A t \in Tasks : task[t].sent = 1

\* ---- the cap
StopsAtCap ==
    \A t \in Tasks :
        (/\ task[t].pc = "scan"
         /\ task[t].tok <= Len(web[task[t].url])
         /\ Index(web[task[t].url][task[t].tok], <<"h", "t", "t", "p">>) = 0
         /\ countCrawled > maxURLS
         /\ task'[t] # task[t])
            => (task'[t].pc = "full" /\ task'[t].furls = task[t].furls)

FailsAfterStop ==
    \A t \in Tasks :
        (task[t].pc = "full" /\ task'[t] # task[t]) => task'[t].err

NothingFromFailedPage ==
    \A t \in Tasks :
        (task[t].pc = "full" \/ task[t].err) =>
            /\ task[t].marked = {}
            /\ task[t].acquired = 0
            /\ task[t].urls = <<>>
            /\ Children(t) = {}

RECURSIVE Counted(_)
\* the increments of countCrawled completed by the calls 1..n: one for each
\* link appended to urls, less the one whose countCrawled++ is under way
Counted(n) ==
    IF n = 0 THEN 0
    ELSE Counted(n - 1) + Len(task[n].furls)
           - (IF task[n].pc \in {"inc", "incw"} THEN 1 ELSE 0)

NoOverlap == peakFetching <= 1

\* the distinct non-file urls found as links: the marked urls other than the
\* start url, and the links accepted on pages that failed
Discovered ==
    (visited \ {startURL})
       \cup UNION {Range(task[t].furls) : t \in {x \in Tasks : task[x].err}}

\* C18 as stated: after an invocation whose Fetch calls did not overlap, the
\* counter is the number of distinct non-file urls found as links.
C18_Original ==
    (pcMain = "returned" /\ NoOverlap) => countCrawled = Cardinality(Discovered)

\* C18: while no two Fetch calls have overlapped, the counter is the number
\* of links accepted by all Fetch calls, each occurrence counted.
C18_CountsEveryLink ==
    NoOverlap => countCrawled = Counted(Len(task))

\* the invocation is over, no Fetch calls overlapped, a page had the same
\* link twice, and the counter is above the number of distinct urls found
C18_Witness ==
    /\ pcMain = "returned"
    /\ peakFetching = 1
    /\ \E t \in Tasks :
          Len(task[t].furls) > Cardinality(Range(task[t].furls))
    /\ countCrawled > Cardinality(Discovered)

\* ---- the visited map
\* C19: the start url is marked from the first state on, and every step
\* leaves the set of marked urls a superset of what it was.
C19_VisitedGrows ==
    /\ [](startURL \in visited)
    /\ [][visited \subseteq visited']_vars

\* the invocation is over with five urls marked
C19_Witness ==
    /\ pcMain = "returned"
    /\ Cardinality(visited) = 5

\* C20: when no call is inside its range loop, there are as many calls as
\* marked urls, and every marked url is the url of exactly one call.
C20_OneTaskPerSeenURL ==
    (\A t \in Tasks : task[t].pc # "range") =>
        /\ Len(task) = Cardinality(visited)
        /\ \A u \in visited :
              Cardinality({t \in Tasks : task[t].url = u}) = 1

\* no call is in its range loop, four calls were started for four marked
\* urls, and one call went through a url that another call had marked
C20_Witness ==
    /\ \A t \in Tasks : task[t].pc # "range"
    /\ Len(task) = 4
    /\ \E t \in Tasks : Dispatched(t) \ task[t].marked # {}

====
